---- MODULE Spec2Model ----
(***************************************************************************)
(* A model of tracedown's in-memory trace store (storage.go): AddTraces,   *)
(* GetTraces with lazy age expiry, GetStats, and the RWMutex that guards   *)
(* them.  Spec runs the three calls one at a time; SpecConc runs them from *)
(* several goroutines, statement by statement, under the lock.             *)
(***************************************************************************)
EXTENDS Integers, Sequences, FiniteSets, TLC

VARIABLES
    s,          \* the TraceStorage: traces, totalSizeBytes, totalSpanCount,
                \* droppedTraces, droppedOldest
    config,     \* the *Config the storage was built with
    now,        \* the reading time.Now() gives
    mu,         \* the sync.RWMutex of the storage
    pc,         \* per goroutine: the statement it is at
    local,      \* per goroutine: the local variables of its call
    history,    \* every entry AddTraces ever appended, in append order
    removed,    \* how many entries were removed for capacity / for age
    lastCall,   \* the call that returned last, the storage before it, its result
    acquired,   \* the AddTraces calls in the order they got mu exclusively
    input,      \* the content of the batches the report is built from
    rc          \* WriteMarkdown: the statement it is at and its local variables

vars == <<s, config, now, mu, pc, local, history, removed, lastCall,
          acquired, input, rc>>

-----------------------------------------------------------------------------
(* Bounds of the model *)

MaxTime == 3        \* the clock runs 0..MaxTime
MaxAdmits == 3      \* AddTraces is called at most this many times
MaxConcAdmits == 2  \* the same, when several goroutines call
MaxConcTime == 2    \* the clock runs 0..MaxConcTime when several goroutines call
MaxSpans == 3       \* the batches a report is built from hold at most this many spans
MaxTimedSpans == 2  \* ... when the spans vary in start time, end time and status

-----------------------------------------------------------------------------
(* Batches: the ptrace.Traces values a client can export *)

BatchIds == {"small", "medium", "big"}

\* The batches exported when several goroutines call.
ConcBatchIds == {"small", "big"}

Spans(n) == [k \in 1..n |-> [spanId |-> k]]

\* ResourceSpans() of a batch: a sequence of resource groups, each a sequence
\* of ScopeSpans, each a sequence of spans.
SmallBatch == << << Spans(1), Spans(2) >> >>
MediumBatch == << << Spans(600) >> >>
BigBatch == << << Spans(500) >>, << Spans(300), Spans(300) >> >>

\* The batches a report is built from; input gives their spans.
ReportBatchIds == {"r1", "r2"}

ResourceSpans(b) ==
    CASE b = "small"  -> SmallBatch
      [] b = "medium" -> MediumBatch
      [] b = "big"    -> BigBatch
      [] b \in ReportBatchIds -> << << input[b] >> >>

RECURSIVE SumLen(_)
SumLen(seq) == IF seq = <<>> THEN 0 ELSE Len(Head(seq)) + SumLen(Tail(seq))

RECURSIVE countSpansFrom(_, _)
countSpansFrom(rss, i) ==
    IF i > Len(rss) THEN 0 ELSE SumLen(rss[i]) + countSpansFrom(rss, i + 1)

countSpans(b) == countSpansFrom(ResourceSpans(b), 1)

\* estimateSize that charges the resource cost once per scope group.
estimateSize_PerScope(b, spanCount) ==
    LET baseSize == 100
        resourceSize == SumLen([i \in DOMAIN ResourceSpans(b) |->
                                   ResourceSpans(b)[i]]) * 500
        spanSize == spanCount * 1024
    IN  baseSize + resourceSize + spanSize

estimateSize(b, spanCount) ==
    LET baseSize == 100
        resourceSize == Len(ResourceSpans(b)) * 500
        spanSize == spanCount * 1024
    IN  baseSize + resourceSize + spanSize

-----------------------------------------------------------------------------
(* Configurations *)

Configs ==
    { [MaxTraces |-> 0, MaxMemoryMB |-> 0, TraceExpiration |-> 0],
      [MaxTraces |-> 2, MaxMemoryMB |-> 0, TraceExpiration |-> 0],
      [MaxTraces |-> 0, MaxMemoryMB |-> 1, TraceExpiration |-> 0],
      [MaxTraces |-> 0, MaxMemoryMB |-> 0, TraceExpiration |-> 2],
      [MaxTraces |-> 2, MaxMemoryMB |-> 1, TraceExpiration |-> 2] }

maxBytes == config.MaxMemoryMB * 1024 * 1024

-----------------------------------------------------------------------------
(* The storage operations, as functions of the storage value *)

NewTraceStorage ==
    [traces |-> <<>>, totalSizeBytes |-> 0, totalSpanCount |-> 0,
     droppedTraces |-> 0, droppedOldest |-> 0]

\* removeOldest that forgets the span total.
removeOldest_KeepsSpanCount(st) ==
    IF Len(st.traces) = 0 THEN st
    ELSE [st EXCEPT !.totalSizeBytes = @ - st.traces[1].sizeBytes,
                    !.droppedOldest = @ + 1,
                    !.traces = Tail(@)]

\* removeOldest that drops the newest entry instead of the oldest.
removeOldest_DropsNewest(st) ==
    IF Len(st.traces) = 0 THEN st
    ELSE LET newest == st.traces[Len(st.traces)]
         IN  [st EXCEPT !.totalSizeBytes = @ - newest.sizeBytes,
                        !.totalSpanCount = @ - countSpans(newest.traces),
                        !.droppedOldest = @ + 1,
                        !.traces = SubSeq(@, 1, Len(@) - 1)]

removeOldest(st) ==
    IF Len(st.traces) = 0 THEN st
    ELSE LET oldest == st.traces[1]
             spanCount == countSpans(oldest.traces)
         IN  [st EXCEPT !.totalSizeBytes = @ - oldest.sizeBytes,
                        !.totalSpanCount = @ - spanCount,
                        !.droppedOldest = @ + 1,
                        !.traces = Tail(@)]

\* evictOldestUntilRoom that removes one entry and stops.
evictOldestUntilRoom_Once(st, newSize) ==
    IF Len(st.traces) > 0 /\ st.totalSizeBytes + newSize > maxBytes
    THEN removeOldest(st)
    ELSE st

\* evictOldestUntilRoom that empties the store once the batch does not fit.
evictOldestUntilRoom_UntilEmpty(st, newSize) ==
    IF Len(st.traces) > 0 /\ st.totalSizeBytes + newSize > maxBytes
    THEN [st EXCEPT !.traces = <<>>, !.totalSizeBytes = 0,
                    !.totalSpanCount = 0,
                    !.droppedOldest = @ + Len(st.traces)]
    ELSE st

RECURSIVE evictOldestUntilRoom(_, _)
evictOldestUntilRoom(st, newSize) ==
    IF Len(st.traces) > 0 /\ st.totalSizeBytes + newSize > maxBytes
    THEN evictOldestUntilRoom(removeOldest(st), newSize)
    ELSE st

overMemoryLimit(st, estimatedSize) ==
    config.MaxMemoryMB > 0 /\ st.totalSizeBytes + estimatedSize > maxBytes

\* The count check off by one.
atTraceCountLimit_OffByOne(st) ==
    config.MaxTraces > 0 /\ Len(st.traces) > config.MaxTraces

\* The count check that takes a limit of zero as a limit.
atTraceCountLimit_ZeroIsLimit(st) ==
    Len(st.traces) >= config.MaxTraces

atTraceCountLimit(st) ==
    config.MaxTraces > 0 /\ Len(st.traces) >= config.MaxTraces

\* appendEntry that puts the new entry at the front.
appendEntry_AtFront(st, entry, spanCount) ==
    [st EXCEPT !.traces = <<entry>> \o @,
               !.totalSizeBytes = @ + entry.sizeBytes,
               !.totalSpanCount = @ + spanCount]

appendEntry(st, entry, spanCount) ==
    [st EXCEPT !.traces = Append(@, entry),
               !.totalSizeBytes = @ + entry.sizeBytes,
               !.totalSpanCount = @ + spanCount]

\* AddTraces that refuses a batch larger than the memory limit.
AddTracesLocked_RejectsOversized(st, b, t) ==
    LET spanCount == countSpans(b)
        estimatedSize == estimateSize(b, spanCount)
        entry == [traces |-> b, timestamp |-> t, sizeBytes |-> estimatedSize]
        st1 == IF overMemoryLimit(st, estimatedSize)
               THEN evictOldestUntilRoom(st, estimatedSize) ELSE st
        st2 == IF atTraceCountLimit(st1) THEN removeOldest(st1) ELSE st1
    IN  IF config.MaxMemoryMB > 0 /\ estimatedSize > maxBytes
        THEN st2 ELSE appendEntry(st2, entry, spanCount)

\* The body of AddTraces between Lock and Unlock; t is time.Now().
AddTracesLocked(st, b, t) ==
    LET spanCount == countSpans(b)
        estimatedSize == estimateSize(b, spanCount)
        entry == [traces |-> b, timestamp |-> t, sizeBytes |-> estimatedSize]
        st1 == IF overMemoryLimit(st, estimatedSize)
               THEN evictOldestUntilRoom(st, estimatedSize) ELSE st
        st2 == IF atTraceCountLimit(st1) THEN removeOldest(st1) ELSE st1
    IN  appendEntry(st2, entry, spanCount)

After(t, u) == t > u

\* expireEntry that does not count the expired entry.
expireEntry_NotCounted(st, entry) ==
    [st EXCEPT !.totalSizeBytes = @ - entry.sizeBytes,
               !.totalSpanCount = @ - countSpans(entry.traces)]

expireEntry(st, entry) ==
    [st EXCEPT !.totalSizeBytes = @ - entry.sizeBytes,
               !.totalSpanCount = @ - countSpans(entry.traces),
               !.droppedOldest = @ + 1]

\* The loop of expireOldTracesLocked over entries[i..]: the storage with the
\* totals of the expired entries subtracted, and the entries kept.
RECURSIVE expireLoop(_, _, _, _, _)
expireLoop(st, entries, i, newTraces, cutoff) ==
    IF i > Len(entries) THEN [st |-> st, newTraces |-> newTraces]
    ELSE IF After(entries[i].timestamp, cutoff)
         THEN expireLoop(st, entries, i + 1, Append(newTraces, entries[i]), cutoff)
         ELSE expireLoop(expireEntry(st, entries[i]), entries, i + 1, newTraces, cutoff)

expireOldTracesLocked(st, t) ==
    IF config.TraceExpiration <= 0 THEN st
    ELSE LET cutoff == t - config.TraceExpiration
             r == expireLoop(st, st.traces, 1, <<>>, cutoff)
         IN  IF Len(r.newTraces) < Len(r.st.traces)
             THEN [r.st EXCEPT !.traces = r.newTraces]
             ELSE r.st

\* The slice GetTraces returns: the batch of every entry, in order.
tracesOf(entries) == [k \in 1..Len(entries) |-> entries[k].traces]

\* The tuple GetStats returns; memoryMB is kept in bytes.
statsOf(st) ==
    [batches |-> Len(st.traces), spans |-> st.totalSpanCount,
     droppedTraces |-> st.droppedTraces, droppedOldest |-> st.droppedOldest,
     memoryBytes |-> st.totalSizeBytes]

-----------------------------------------------------------------------------
(* The lock and the goroutines *)

Goroutines == {"g1", "g2"}
None == "none"

NoLocal == [op |-> "none"]
NoCall == [op |-> "none"]
NoInput == <<>>
NoSnapshot == [backing |-> "none"]
NoReport ==
    [reports |-> <<>>, held |-> NoSnapshot, taken |-> <<>>,
     main |-> "none", at |-> 0]

\* GetTraces that hands out the store's own slice.
makeSnapshot_SharesStore(st) == [backing |-> "store", items |-> <<>>]

\* result := make([]ptrace.Traces, len(s.traces)), filled from s.traces: a
\* slice with a backing array of its own.
makeSnapshot(st) == [backing |-> "own", items |-> tracesOf(st.traces)]

\* What a caller finds in a snapshot it holds while the store is st.
readSnapshot(snap, st) ==
    IF snap.backing = "store" THEN tracesOf(st.traces) ELSE snap.items

Init ==
    /\ config \in Configs
    /\ s = NewTraceStorage
    /\ now = 0
    /\ mu = [w |-> None, exclusive |-> FALSE, readers |-> {}]
    /\ pc = [g \in Goroutines |-> "idle"]
    /\ local = [g \in Goroutines |-> NoLocal]
    /\ history = <<>>
    /\ removed = [limit |-> 0, age |-> 0]
    /\ lastCall = NoCall
    /\ acquired = <<>>
    /\ input = NoInput
    /\ rc = NoReport

\* time.Now() moves on.
Tick ==
    /\ now < MaxTime
    /\ now' = now + 1
    /\ UNCHANGED <<s, config, mu, pc, local, history, removed, lastCall>>
    /\ UNCHANGED <<acquired, input, rc>>

-----------------------------------------------------------------------------
(* One caller: every call runs from Lock to Unlock before the next starts *)

Quiet == \A g \in Goroutines : pc[g] = "idle"

AddTraces(b) ==
    /\ Quiet
    /\ Len(history) < MaxAdmits
    /\ s' = AddTracesLocked(s, b, now)
    /\ history' = Append(history, [traces |-> b, timestamp |-> now,
                                   sizeBytes |-> estimateSize(b, countSpans(b))])
    /\ removed' = [removed EXCEPT !.limit = @ + (Len(s.traces) + 1 - Len(s'.traces))]
    /\ lastCall' = [op |-> "AddTraces", batch |-> b, at |-> now, before |-> s]
    /\ UNCHANGED <<config, now, mu, pc, local>>
    /\ UNCHANGED <<acquired, input, rc>>

GetTraces ==
    /\ Quiet
    /\ s' = expireOldTracesLocked(s, now)
    /\ removed' = [removed EXCEPT !.age = @ + (Len(s.traces) - Len(s'.traces))]
    /\ lastCall' = [op |-> "GetTraces", at |-> now, before |-> s,
                    result |-> tracesOf(s'.traces)]
    /\ rc' = IF rc.held = NoSnapshot
             THEN [rc EXCEPT !.held = makeSnapshot(s'),
                             !.taken = tracesOf(s'.traces)]
             ELSE rc
    /\ UNCHANGED <<config, now, mu, pc, local, history>>
    /\ UNCHANGED <<acquired, input>>

\* GetTraces whose caller lets go of the slice once it has looked at it.
GetTracesAndDrop ==
    /\ Quiet
    /\ s' = expireOldTracesLocked(s, now)
    /\ removed' = [removed EXCEPT !.age = @ + (Len(s.traces) - Len(s'.traces))]
    /\ lastCall' = [op |-> "GetTraces", at |-> now, before |-> s,
                    result |-> tracesOf(s'.traces)]
    /\ UNCHANGED <<config, now, mu, pc, local, history>>
    /\ UNCHANGED <<acquired, input, rc>>

\* GetStats that expires old entries before it reads the totals.
GetStats_Expires ==
    /\ Quiet
    /\ s' = expireOldTracesLocked(s, now)
    /\ lastCall' = [op |-> "GetStats", at |-> now, before |-> s,
                    result |-> statsOf(s')]
    /\ UNCHANGED <<config, now, mu, pc, local, history, removed>>
    /\ UNCHANGED <<acquired, input, rc>>

GetStats ==
    /\ Quiet
    /\ lastCall' = [op |-> "GetStats", at |-> now, before |-> s,
                    result |-> statsOf(s)]
    /\ UNCHANGED <<s, config, now, mu, pc, local, history, removed>>
    /\ UNCHANGED <<acquired, input, rc>>

Next ==
    \/ Tick
    \/ \E b \in BatchIds : AddTraces(b)
    \/ GetTraces
    \/ GetStats

Spec == Init /\ [][Next]_vars

\* The same calls when no caller keeps a slice.
NextCalls ==
    \/ Tick
    \/ \E b \in BatchIds : AddTraces(b)
    \/ GetTracesAndDrop
    \/ GetStats

SpecCalls == Init /\ [][NextCalls]_vars

-----------------------------------------------------------------------------
(* Several callers: each goroutine runs its call statement by statement *)

TickConc ==
    /\ now < MaxConcTime
    /\ now' = now + 1
    /\ UNCHANGED <<s, config, mu, pc, local, history, removed, lastCall>>
    /\ UNCHANGED <<acquired, input, rc>>

\* How many AddTraces calls have started and not yet appended.
addsInFlight ==
    Cardinality({g \in Goroutines : pc[g] \in {"add_Lock", "add_LockWait", "add_body"}})

CallAddTraces(g, b) ==
    /\ pc[g] = "idle"
    /\ Len(history) + addsInFlight < MaxConcAdmits
    /\ pc' = [pc EXCEPT ![g] = "add_Lock"]
    /\ local' = [local EXCEPT ![g] = [op |-> "AddTraces", batch |-> b]]
    /\ UNCHANGED <<s, config, now, mu, history, removed, lastCall>>
    /\ UNCHANGED <<acquired, input, rc>>

CallGetTraces(g) ==
    /\ pc[g] = "idle"
    /\ pc' = [pc EXCEPT ![g] = "get_RLock"]
    /\ local' = [local EXCEPT ![g] = [op |-> "GetTraces"]]
    /\ UNCHANGED <<s, config, now, mu, history, removed, lastCall>>
    /\ UNCHANGED <<acquired, input, rc>>

CallGetStats(g) ==
    /\ pc[g] = "idle"
    /\ pc' = [pc EXCEPT ![g] = "stats_RLock"]
    /\ local' = [local EXCEPT ![g] = [op |-> "GetStats"]]
    /\ UNCHANGED <<s, config, now, mu, history, removed, lastCall>>
    /\ UNCHANGED <<acquired, input, rc>>

\* mu.Lock(), first half: take the writers' mutex, which keeps new readers out.
LockAnnounce(g) ==
    /\ pc[g] = "add_Lock"
    /\ mu.w = None
    /\ mu' = [mu EXCEPT !.w = g]
    /\ pc' = [pc EXCEPT ![g] = "add_LockWait"]
    /\ UNCHANGED <<s, config, now, local, history, removed, lastCall>>
    /\ UNCHANGED <<acquired, input, rc>>

\* mu.Lock(), second half: wait until the active readers have left.
LockAcquire(g) ==
    /\ pc[g] = "add_LockWait"
    /\ mu.w = g
    /\ mu.readers = {}
    /\ mu' = [mu EXCEPT !.exclusive = TRUE]
    /\ pc' = [pc EXCEPT ![g] = "add_body"]
    /\ acquired' = Append(acquired,
           [batch |-> local[g].batch,
            contended |-> \E h \in Goroutines \ {g} :
                              pc[h] \in {"add_Lock", "add_LockWait"}])
    /\ UNCHANGED <<s, config, now, local, history, removed, lastCall>>
    /\ UNCHANGED <<input, rc>>

AddTracesBody(g) ==
    /\ pc[g] = "add_body"
    /\ s' = AddTracesLocked(s, local[g].batch, now)
    /\ history' = Append(history, [traces |-> local[g].batch, timestamp |-> now,
                                   sizeBytes |-> estimateSize(local[g].batch,
                                                     countSpans(local[g].batch))])
    /\ removed' = [removed EXCEPT !.limit = @ + (Len(s.traces) + 1 - Len(s'.traces))]
    /\ pc' = [pc EXCEPT ![g] = "add_Unlock"]
    /\ UNCHANGED <<config, now, mu, local, lastCall>>
    /\ UNCHANGED <<acquired, input, rc>>

\* Unlock that leaves the writers' mutex taken.
Unlock_KeepsWriterMutex(g) ==
    /\ pc[g] = "add_Unlock"
    /\ mu' = [mu EXCEPT !.exclusive = FALSE]
    /\ pc' = [pc EXCEPT ![g] = "idle"]
    /\ local' = [local EXCEPT ![g] = NoLocal]
    /\ UNCHANGED <<s, config, now, history, removed, lastCall>>
    /\ UNCHANGED <<acquired, input, rc>>

Unlock(g) ==
    /\ pc[g] = "add_Unlock"
    /\ mu' = [mu EXCEPT !.w = None, !.exclusive = FALSE]
    /\ pc' = [pc EXCEPT ![g] = "idle"]
    /\ local' = [local EXCEPT ![g] = NoLocal]
    /\ UNCHANGED <<s, config, now, history, removed, lastCall>>
    /\ UNCHANGED <<acquired, input, rc>>

RLock(g) ==
    /\ pc[g] \in {"get_RLock", "stats_RLock"}
    /\ mu.w = None
    /\ mu' = [mu EXCEPT !.readers = @ \cup {g}]
    /\ pc' = [pc EXCEPT ![g] = IF pc[g] = "get_RLock" THEN "exp_check" ELSE "stats_read"]
    /\ UNCHANGED <<s, config, now, local, history, removed, lastCall>>
    /\ UNCHANGED <<acquired, input, rc>>

RUnlock(g) ==
    /\ pc[g] \in {"get_RUnlock", "stats_RUnlock"}
    /\ mu' = [mu EXCEPT !.readers = @ \ {g}]
    /\ pc' = [pc EXCEPT ![g] = "idle"]
    /\ local' = [local EXCEPT ![g] = NoLocal]
    /\ UNCHANGED <<s, config, now, history, removed, lastCall>>
    /\ UNCHANGED <<acquired, input, rc>>

\* expireOldTracesLocked: the early return, or cutoff, newTraces and the range.
ExpireCheck(g) ==
    /\ pc[g] = "exp_check"
    /\ IF config.TraceExpiration <= 0
       THEN /\ pc' = [pc EXCEPT ![g] = "get_make"]
            /\ UNCHANGED local
       ELSE /\ pc' = [pc EXCEPT ![g] = "exp_loop"]
            /\ local' = [local EXCEPT ![g] =
                   [op |-> "GetTraces", cutoff |-> now - config.TraceExpiration,
                    entries |-> s.traces, i |-> 1, newTraces |-> <<>>]]
    /\ UNCHANGED <<s, config, now, mu, history, removed, lastCall>>
    /\ UNCHANGED <<acquired, input, rc>>

\* One turn of the for loop: keep the entry, or go on to subtract it.
ExpireLoop(g) ==
    /\ pc[g] = "exp_loop"
    /\ LET l == local[g] IN
       IF l.i > Len(l.entries)
       THEN /\ pc' = [pc EXCEPT ![g] = "exp_commit"]
            /\ UNCHANGED local
       ELSE IF After(l.entries[l.i].timestamp, l.cutoff)
            THEN /\ local' = [local EXCEPT ![g].newTraces = Append(@, l.entries[l.i]),
                                           ![g].i = @ + 1]
                 /\ UNCHANGED pc
            ELSE /\ pc' = [pc EXCEPT ![g] = "exp_size"]
                 /\ UNCHANGED local
    /\ UNCHANGED <<s, config, now, mu, history, removed, lastCall>>
    /\ UNCHANGED <<acquired, input, rc>>

\* s.totalSizeBytes -= entry.sizeBytes
ExpireSize(g) ==
    /\ pc[g] = "exp_size"
    /\ s' = [s EXCEPT !.totalSizeBytes = @ - local[g].entries[local[g].i].sizeBytes]
    /\ pc' = [pc EXCEPT ![g] = "exp_span"]
    /\ UNCHANGED <<config, now, mu, local, history, removed, lastCall>>
    /\ UNCHANGED <<acquired, input, rc>>

\* s.totalSpanCount -= spanCount
ExpireSpans(g) ==
    /\ pc[g] = "exp_span"
    /\ s' = [s EXCEPT !.totalSpanCount = @ - countSpans(local[g].entries[local[g].i].traces)]
    /\ pc' = [pc EXCEPT ![g] = "exp_drop"]
    /\ UNCHANGED <<config, now, mu, local, history, removed, lastCall>>
    /\ UNCHANGED <<acquired, input, rc>>

\* s.droppedOldest++
ExpireDropped(g) ==
    /\ pc[g] = "exp_drop"
    /\ s' = [s EXCEPT !.droppedOldest = @ + 1]
    /\ pc' = [pc EXCEPT ![g] = "exp_loop"]
    /\ local' = [local EXCEPT ![g].i = @ + 1]
    /\ UNCHANGED <<config, now, mu, history, removed, lastCall>>
    /\ UNCHANGED <<acquired, input, rc>>

\* if len(newTraces) < len(s.traces) { s.traces = newTraces }
ExpireCommit(g) ==
    /\ pc[g] = "exp_commit"
    /\ IF Len(local[g].newTraces) < Len(s.traces)
       THEN /\ s' = [s EXCEPT !.traces = local[g].newTraces]
            /\ removed' = [removed EXCEPT
                   !.age = @ + (Len(s.traces) - Len(local[g].newTraces))]
       ELSE UNCHANGED <<s, removed>>
    /\ pc' = [pc EXCEPT ![g] = "get_make"]
    /\ UNCHANGED <<config, now, mu, local, history, lastCall>>
    /\ UNCHANGED <<acquired, input, rc>>

\* result := make([]ptrace.Traces, len(s.traces))
GetTracesMake(g) ==
    /\ pc[g] = "get_make"
    /\ local' = [local EXCEPT ![g] = [op |-> "GetTraces", n |-> Len(s.traces)]]
    /\ pc' = [pc EXCEPT ![g] = "get_copy"]
    /\ UNCHANGED <<s, config, now, mu, history, removed, lastCall>>
    /\ UNCHANGED <<acquired, input, rc>>

\* for i, entry := range s.traces { result[i] = entry.traces }: a slot the range
\* does not reach keeps the zero value, an index past the result panics.
GetTracesCopy(g) ==
    /\ pc[g] = "get_copy"
    /\ LET src == s.traces
           n == local[g].n
       IN  local' = [local EXCEPT ![g] =
               [op |-> "GetTraces",
                panic |-> Len(src) > n,
                result |-> [k \in 1..n |->
                               IF k <= Len(src) THEN src[k].traces ELSE "zero"],
                timestamps |-> [k \in 1..n |->
                               IF k <= Len(src) THEN src[k].timestamp ELSE 0]]]
    /\ pc' = [pc EXCEPT ![g] = "get_RUnlock"]
    /\ UNCHANGED <<s, config, now, mu, history, removed, lastCall>>
    /\ UNCHANGED <<acquired, input, rc>>

\* GetStats: the return statement.
GetStatsRead(g) ==
    /\ pc[g] = "stats_read"
    /\ local' = [local EXCEPT ![g] = [op |-> "GetStats", result |-> statsOf(s)]]
    /\ pc' = [pc EXCEPT ![g] = "stats_RUnlock"]
    /\ UNCHANGED <<s, config, now, mu, history, removed, lastCall>>
    /\ UNCHANGED <<acquired, input, rc>>

Step(g) ==
    \/ \E b \in ConcBatchIds : CallAddTraces(g, b)
    \/ CallGetTraces(g)
    \/ CallGetStats(g)
    \/ LockAnnounce(g)
    \/ LockAcquire(g)
    \/ AddTracesBody(g)
    \/ Unlock(g)
    \/ RLock(g)
    \/ ExpireCheck(g)
    \/ ExpireLoop(g)
    \/ ExpireSize(g)
    \/ ExpireSpans(g)
    \/ ExpireDropped(g)
    \/ ExpireCommit(g)
    \/ GetTracesMake(g)
    \/ GetTracesCopy(g)
    \/ GetStatsRead(g)
    \/ RUnlock(g)

NextConc ==
    \/ TickConc
    \/ \E g \in Goroutines : Step(g)

SpecConc == Init /\ [][NextConc]_vars

\* The steps of a call under way: everything but the start of a new call.
Progress(g) ==
    \/ LockAnnounce(g)
    \/ LockAcquire(g)
    \/ AddTracesBody(g)
    \/ Unlock(g)
    \/ RLock(g)
    \/ ExpireCheck(g)
    \/ ExpireLoop(g)
    \/ ExpireSize(g)
    \/ ExpireSpans(g)
    \/ ExpireDropped(g)
    \/ ExpireCommit(g)
    \/ GetTracesMake(g)
    \/ GetTracesCopy(g)
    \/ GetStatsRead(g)
    \/ RUnlock(g)

\* A store with all three limits set.
InitLive ==
    /\ Init
    /\ config.MaxTraces > 0 /\ config.MaxMemoryMB > 0 /\ config.TraceExpiration > 0

\* The Go scheduler runs every goroutine that stays runnable.
\* The calls differ in what they do to the lock, not in the batch they bring.
StepLive(g) ==
    \/ CallAddTraces(g, "small")
    \/ CallGetTraces(g)
    \/ CallGetStats(g)
    \/ Progress(g)

NextLive ==
    \/ TickConc
    \/ \E g \in Goroutines : StepLive(g)

SpecLive ==
    /\ InitLive
    /\ [][NextLive]_vars
    /\ \A g \in Goroutines :
           WF_vars(Progress(g))

-----------------------------------------------------------------------------
(* Properties of the store under one caller *)

RECURSIVE sumSizeBytes(_)
sumSizeBytes(entries) ==
    IF entries = <<>> THEN 0
    ELSE Head(entries).sizeBytes + sumSizeBytes(Tail(entries))

RECURSIVE sumSpanCount(_)
sumSpanCount(entries) ==
    IF entries = <<>> THEN 0
    ELSE countSpans(Head(entries).traces) + sumSpanCount(Tail(entries))

Last(seq) == seq[Len(seq)]

Suffix(seq, n) == SubSeq(seq, Len(seq) - n + 1, Len(seq))

CountOnly ==
    config.MaxTraces > 0 /\ config.MaxMemoryMB = 0 /\ config.TraceExpiration <= 0

\* C1: the running totals totalSizeBytes and totalSpanCount equal the sums of
\* sizeBytes and of span counts recomputed over the retained entries, in every
\* state reached by AddTraces (with its evictions) and GetTraces (with expiry).
C1_Accounting ==
    /\ s.totalSizeBytes = sumSizeBytes(s.traces)
    /\ s.totalSpanCount = sumSpanCount(s.traces)

C1_Witness ==
    /\ removed.limit > 0
    /\ removed.age > 0
    /\ Len(s.traces) > 0

\* C2: with MaxTraces = N > 0 the store never holds more than N entries, and
\* with only the count cap configured it holds exactly N once N or more
\* batches were admitted.
C2_CountCap ==
    /\ config.MaxTraces > 0 => Len(s.traces) <= config.MaxTraces
    /\ (CountOnly /\ Len(history) >= config.MaxTraces)
           => Len(s.traces) = config.MaxTraces

C2_Witness ==
    /\ CountOnly
    /\ lastCall.op = "AddTraces"
    /\ Len(history) > config.MaxTraces
    /\ Len(s.traces) = config.MaxTraces

\* C3: the droppedTraces value GetStats returns (its third value, logged as
\* "Traces dropped (limit)") equals the number of entries removed by capacity
\* eviction.
C3_LimitDropCounter ==
    lastCall.op = "GetStats" => lastCall.result.droppedTraces = removed.limit

\* C4: the retained entries are always the newest entries of the admission
\* history, in admission order: removal takes entries from the front only.
C4_OldestFirst ==
    /\ Len(s.traces) <= Len(history)
    /\ s.traces = Suffix(history, Len(s.traces))

C4_Witness ==
    /\ removed.limit > 0
    /\ removed.age > 0
    /\ Len(s.traces) > 0
    /\ history[1] # Last(history)

\* C5: with a memory limit, after AddTraces returns either totalSizeBytes is
\* within the limit or the store holds only the batch just admitted, whose own
\* size exceeds the limit.
C5_ByteCap ==
    (config.MaxMemoryMB > 0 /\ lastCall.op = "AddTraces") =>
        \/ s.totalSizeBytes <= maxBytes
        \/ /\ Len(s.traces) = 1
           /\ s.traces[1].traces = lastCall.batch
           /\ s.traces[1].sizeBytes > maxBytes

C5_Witness ==
    /\ config.MaxMemoryMB > 0
    /\ lastCall.op = "AddTraces"
    /\ Len(lastCall.before.traces) > 0
    /\ s.totalSizeBytes > maxBytes

\* C6: right after AddTraces(b) returns, b is the last entry of the store,
\* whatever the limits and the store held before.
C6_AdmissionAlwaysSucceeds ==
    lastCall.op = "AddTraces" =>
        /\ Len(s.traces) > 0
        /\ Last(s.traces).traces = lastCall.batch
        /\ Last(s.traces).timestamp = lastCall.at
        /\ Last(s.traces) = Last(history)

C6_Witness ==
    /\ lastCall.op = "AddTraces"
    /\ config.MaxMemoryMB > 0
    /\ estimateSize(lastCall.batch, countSpans(lastCall.batch)) > maxBytes
    /\ lastCall.before.totalSizeBytes > maxBytes
    /\ Last(s.traces).traces = lastCall.batch

IsSortedByTimestamp(entries) ==
    \A k \in 1..(Len(entries) - 1) : entries[k].timestamp <= entries[k + 1].timestamp

\* The slots of a returned slice that the copy loop filled.
Filled(l) == {k \in 1..Len(l.result) : l.result[k] # "zero"}

\* C7: under any interleaving of AddTraces and GetTraces calls the store keeps
\* its entries in non-decreasing timestamp order, and the slice GetTraces
\* returns lists the batches of entries in non-decreasing timestamp order.
C7_Ordering ==
    /\ IsSortedByTimestamp(s.traces)
    /\ \A g \in Goroutines : pc[g] = "get_RUnlock" =>
           /\ ~local[g].panic
           /\ \A j, k \in Filled(local[g]) :
                  j < k => local[g].timestamps[j] <= local[g].timestamps[k]

C7_Witness ==
    \E g \in Goroutines :
        /\ pc[g] = "get_RUnlock"
        /\ Len(local[g].result) = 2
        /\ Filled(local[g]) = {1, 2}
        /\ local[g].timestamps[1] < local[g].timestamps[2]
        /\ removed.age > 0

\* C8: with TraceExpiration = D > 0, a GetTraces call at time now removes
\* exactly the entries whose timestamp is older than now - D and keeps every
\* other entry.
C8_AgeExpiry ==
    (lastCall.op = "GetTraces" /\ config.TraceExpiration > 0) =>
        s.traces = SelectSeq(lastCall.before.traces,
                       LAMBDA e : ~(e.timestamp < lastCall.at - config.TraceExpiration))

\* C9: a GetTraces call raises droppedOldest (the fourth value of GetStats,
\* logged as "Traces expired (age)") by exactly the number of entries the call
\* removed, and by zero when it removed none.
C9_AgeDropCounter ==
    lastCall.op = "GetTraces" =>
        statsOf(s).droppedOldest - statsOf(lastCall.before).droppedOldest
            = Len(lastCall.before.traces) - Len(s.traces)

C9_Witness ==
    /\ lastCall.op = "GetTraces"
    /\ Len(lastCall.before.traces) - Len(s.traces) = 1
    /\ Len(s.traces) > 0
    /\ lastCall.before.droppedOldest > 0

-----------------------------------------------------------------------------
(* Properties of the store under several callers *)

\* C10: the storage fields (traces, totalSizeBytes, totalSpanCount and the
\* drop counters) change only in a step of a goroutine that holds mu
\* exclusively; the expiry inside GetTraces never runs under the read lock.
C10_LockDiscipline ==
    [][s' # s => \E g \in Goroutines :
                     /\ pc'[g] # pc[g]
                     /\ mu.w = g
                     /\ mu.exclusive]_vars

\* C11: whatever the interleaving of concurrent GetTraces calls, every expired
\* entry is removed and accounted once: when no call is in flight the totals
\* equal the sums over the retained entries and droppedOldest has grown by
\* the number of entries removed.
C11_ExpireOnce ==
    Quiet =>
        /\ s.totalSizeBytes = sumSizeBytes(s.traces)
        /\ s.totalSpanCount = sumSpanCount(s.traces)
        /\ s.droppedOldest = removed.limit + removed.age

\* The tuples GetStats returns between calls: the k newest entries of the
\* history are retained and the others were dropped.
statsOfKept(k) ==
    [batches |-> k, spans |-> sumSpanCount(Suffix(history, k)),
     droppedTraces |-> 0, droppedOldest |-> Len(history) - k,
     memoryBytes |-> sumSizeBytes(Suffix(history, k))]

\* C12: the tuple a GetStats call returns, also while AddTraces and GetTraces
\* calls run, is the tuple of one single state of the store, never a mix of
\* fields from before and after another call's mutation.
C12_StatsAtomic ==
    \A g \in Goroutines : pc[g] = "stats_RUnlock" =>
        \E k \in 0..Len(history) : local[g].result = statsOfKept(k)

AllZero ==
    config.MaxTraces = 0 /\ config.MaxMemoryMB = 0 /\ config.TraceExpiration <= 0

batchesOf(calls) == [k \in 1..Len(calls) |-> calls[k].batch]

\* C13: with no limits, concurrent AddTraces calls lose and duplicate nothing:
\* the store holds one entry per call that ran its body, in the order the
\* calls got the exclusive lock, so N calls that all returned leave N entries.
C13_ConcurrentAdmission ==
    AllZero =>
        /\ Len(s.traces) = Len(history)
        /\ Len(s.traces) <= Len(acquired)
        /\ tracesOf(s.traces) = SubSeq(batchesOf(acquired), 1, Len(s.traces))
        /\ Len(acquired) - Len(s.traces)
               = Cardinality({g \in Goroutines : pc[g] = "add_body"})

C13_Witness ==
    /\ AllZero
    /\ Quiet
    /\ Len(s.traces) = 2
    /\ acquired[1].contended
    /\ acquired[1].batch # acquired[2].batch


-----------------------------------------------------------------------------
\* The report: WriteMarkdown groups the stored spans by trace id, orders the
\* traces, and builds one span tree per trace.  A span is a record
\* [traceId, spanId, parentSpanId, startTime, endTime, status]; the id 0 is
\* the empty id.

IsEmpty(id) == id = 0

TraceIds == {"T1", "T2"}

\* Spans of one trace with arbitrary parent links to another span id.
TreeSpans ==
    {sp \in [traceId : {"T1"}, spanId : 1..3, parentSpanId : 0..2,
             startTime : 1..2, endTime : {2}, status : {"Unset"}] :
        sp.spanId # sp.parentSpanId}

\* Root spans of two traces.
FlatSpans ==
    [traceId : TraceIds, spanId : 1..2, parentSpanId : {0},
     startTime : 1..2, endTime : {2}, status : {"Unset"}]

\* Timestamps are unsigned integers of a fixed width, here two bits.
Timestamps == 0..3

TimestampModulus == Cardinality(Timestamps)

\* Root spans of one trace with the start and end times q, numbered in order.
Times == [startTime : Timestamps, endTime : Timestamps]

TimedSpans(q) ==
    [k \in DOMAIN q |->
        [traceId |-> "T1", spanId |-> k, parentSpanId |-> 0,
         startTime |-> q[k].startTime, endTime |-> q[k].endTime,
         status |-> "Ok"]]

\* Root spans of two traces, with and without an error status.
StatusSpans ==
    [traceId : TraceIds, spanId : 1..2, parentSpanId : {0},
     startTime : {1}, endTime : {2}, status : {"Ok", "Error"}]

SeqsUpTo(S, n) == UNION {[1..k -> S] : k \in 1..n}

\* One request carrying the spans q; two requests carrying q cut in two at k.
OneBatch(q) == [r1 |-> q, r2 |-> <<>>]

TwoBatches(q, k) == [r1 |-> SubSeq(q, 1, k), r2 |-> SubSeq(q, k + 1, Len(q))]

\* All orders in which a Go map holding the keys S can be iterated.
RECURSIVE MapOrders(_)
MapOrders(S) ==
    IF S = {} THEN {<<>>}
    ELSE UNION {{<<x>> \o q : q \in MapOrders(S \ {x})} : x \in S}

\* sort.Slice on a short slice is an insertion sort: an element moves left
\* while it is less than its left neighbour.  pairs are <<key, item>>.
RECURSIVE insertLess(_, _)
insertLess(sorted, p) ==
    IF sorted = <<>> THEN <<p>>
    ELSE IF p[1] < Last(sorted)[1]
         THEN Append(insertLess(SubSeq(sorted, 1, Len(sorted) - 1), p),
                     Last(sorted))
         ELSE Append(sorted, p)

RECURSIVE sortSlicePairs(_, _)
sortSlicePairs(pairs, k) ==
    IF k = 0 THEN <<>>
    ELSE insertLess(sortSlicePairs(pairs, k - 1), pairs[k])

sortSlice(pairs) ==
    LET r == sortSlicePairs(pairs, Len(pairs))
    IN  [i \in 1..Len(r) |-> r[i][2]]

\* The spanInfo records of one scope, one resource group, one batch, the store.
scopeSpanInfos(b, i, j) ==
    LET sp == ResourceSpans(b)[i][j]
    IN  [k \in 1..Len(sp) |->
            [span |-> sp[k], resource |-> <<b, i>>, scope |-> <<b, i, j>>]]

RECURSIVE resourceSpanInfos(_, _, _)
resourceSpanInfos(b, i, j) ==
    IF j = 0 THEN <<>>
    ELSE resourceSpanInfos(b, i, j - 1) \o scopeSpanInfos(b, i, j)

RECURSIVE batchSpanInfos(_, _)
batchSpanInfos(b, i) ==
    IF i = 0 THEN <<>>
    ELSE batchSpanInfos(b, i - 1)
            \o resourceSpanInfos(b, i, Len(ResourceSpans(b)[i]))

RECURSIVE storeSpanInfos(_, _)
storeSpanInfos(entries, n) ==
    IF n = 0 THEN <<>>
    ELSE storeSpanInfos(entries, n - 1)
            \o batchSpanInfos(entries[n].traces,
                              Len(ResourceSpans(entries[n].traces)))

\* traceMap[traceID].spans = append(traceMap[traceID].spans, spanInfo{...})
addSpan_Replaces(traceMap, si) ==
    LET id == si.span.traceId
    IN  [x \in DOMAIN traceMap \cup {id} |->
            IF x = id THEN [traceID |-> id, spans |-> <<si>>]
            ELSE traceMap[x]]

addSpan(traceMap, si) ==
    LET id == si.span.traceId
        tm == [x \in DOMAIN traceMap \cup {id} |->
                 IF x \in DOMAIN traceMap THEN traceMap[x]
                 ELSE [traceID |-> id, spans |-> <<>>]]
    IN  [tm EXCEPT ![id].spans = Append(@, si)]

RECURSIVE groupSpans(_, _)
groupSpans(infos, n) ==
    IF n = 0 THEN <<>>
    ELSE addSpan(groupSpans(infos, n - 1), infos[n])

getEarliestTime(ti) ==
    IF Len(ti.spans) = 0 THEN 0
    ELSE CHOOSE m \in {ti.spans[k].span.startTime : k \in 1..Len(ti.spans)} :
             \A k \in 1..Len(ti.spans) : m <= ti.spans[k].span.startTime

\* The traces slice: the map is ranged over in any order, then sorted.
sortedTraces(traceMap) ==
    {sortSlice([k \in 1..Len(o) |->
                   <<getEarliestTime(traceMap[o[k]]), traceMap[o[k]]>>]) :
        o \in MapOrders(DOMAIN traceMap)}

sortSpans(spans) ==
    sortSlice([k \in 1..Len(spans) |-> <<spans[k].span.startTime, spans[k]>>])

RECURSIVE buildSpanMap(_, _)
buildSpanMap(spans, n) ==
    IF n = 0 THEN <<>>
    ELSE LET m == buildSpanMap(spans, n - 1)
             id == spans[n].span.spanId
         IN  [x \in DOMAIN m \cup {id} |-> IF x = id THEN spans[n] ELSE m[x]]

findRootSpan(spans) ==
    LET roots == {k \in 1..Len(spans) :
                     IsEmpty(spans[k].span.parentSpanId)}
    IN  IF roots # {}
        THEN spans[CHOOSE k \in roots : \A l \in roots : k <= l]
        ELSE spans[1]

\* buildChildren keeps no record of the spans it has descended into.  A span
\* id met a second time on the way down from the root starts the same descent
\* again, without end; the model stops there and marks the node as cut.
\* path holds the span ids of the node's ancestors.
RECURSIVE buildChildren(_, _, _, _)
RECURSIVE childLists(_, _, _, _)
buildChildren(si, spanMap, depth, path) ==
    IF si.span.spanId \in path
    THEN {[spanInfo |-> si, children |-> <<>>, depth |-> depth, cut |-> TRUE]}
    ELSE LET match == {id \in DOMAIN spanMap :
                          spanMap[id].span.parentSpanId = si.span.spanId}
             orders == {sortSlice([k \in 1..Len(o) |->
                                      <<spanMap[o[k]].span.startTime, o[k]>>]) :
                           o \in MapOrders(match)}
             below == path \cup {si.span.spanId}
         IN  UNION {{[spanInfo |-> si, children |-> kids, depth |-> depth,
                      cut |-> FALSE] :
                        kids \in childLists(o, spanMap, depth + 1, below)} :
                    o \in orders}

childLists(ids, spanMap, depth, path) ==
    IF ids = <<>> THEN {<<>>}
    ELSE {<<c>> \o rest :
             c \in buildChildren(spanMap[ids[1]], spanMap, depth, path),
             rest \in childLists(Tail(ids), spanMap, depth, path)}

\* buildSpanTree that numbers the depths from one.
buildSpanTree_DepthFromOne(ti) ==
    buildChildren(findRootSpan(ti.spans),
                  buildSpanMap(ti.spans, Len(ti.spans)), 1, {})

buildSpanTree(ti) ==
    buildChildren(findRootSpan(ti.spans),
                  buildSpanMap(ti.spans, Len(ti.spans)), 0, {})

\* span.Name(): the requests of the model name every span after its span id.
Name(span) == <<"op", span.spanId>>

\* resource.Attributes().Get("service.name"): the first request of the model
\* comes from the service "frontend", the second from "backend"; the other
\* batches carry no such attribute.
serviceNameAttribute(resource) ==
    CASE resource[1] = "r1" -> [ok |-> TRUE, value |-> "frontend"]
      [] resource[1] = "r2" -> [ok |-> TRUE, value |-> "backend"]
      [] OTHER -> [ok |-> FALSE]

getServiceName(ti) ==
    IF Len(ti.spans) = 0 THEN "unknown"
    ELSE LET serviceName == serviceNameAttribute(ti.spans[1].resource)
         IN  IF serviceName.ok THEN serviceName.value ELSE "unknown"

getRootSpanName(ti) ==
    LET roots == {k \in 1..Len(ti.spans) :
                     IsEmpty(ti.spans[k].span.parentSpanId)}
    IN  IF roots # {}
        THEN Name(ti.spans[CHOOSE k \in roots : \A l \in roots : k <= l].span)
        ELSE IF Len(ti.spans) > 0 THEN Name(ti.spans[1].span)
        ELSE "unknown"

\* The "Service" row of the service info table of writeTrace, if it is written.
serviceInfo(ti) ==
    IF Len(ti.spans) > 0
    THEN serviceNameAttribute(ti.spans[1].resource)
    ELSE [ok |-> FALSE]

\* hasError that wants every span to have failed.
hasError_AllSpans(ti) ==
    \A k \in 1..Len(ti.spans) : ti.spans[k].span.status = "Error"

hasError(ti) ==
    \E k \in 1..Len(ti.spans) : ti.spans[k].span.status = "Error"

\* time.Duration(latest - earliest): the difference of two unsigned timestamps
\* wraps, and the conversion reads it as a signed integer of the same width.
toDuration(latest, earliest) ==
    LET d == (latest - earliest) % TimestampModulus
    IN  IF 2 * d >= TimestampModulus THEN d - TimestampModulus ELSE d

\* The loop of getDuration without the update of latest.
RECURSIVE durationLoop_KeepsFirstEnd(_, _, _, _)
durationLoop_KeepsFirstEnd(spans, k, earliest, latest) ==
    IF k > Len(spans) THEN toDuration(latest, earliest)
    ELSE durationLoop_KeepsFirstEnd(spans, k + 1,
             IF spans[k].span.startTime < earliest
             THEN spans[k].span.startTime ELSE earliest,
             latest)

RECURSIVE durationLoop(_, _, _, _)
durationLoop(spans, k, earliest, latest) ==
    IF k > Len(spans) THEN toDuration(latest, earliest)
    ELSE durationLoop(spans, k + 1,
             IF spans[k].span.startTime < earliest
             THEN spans[k].span.startTime ELSE earliest,
             IF spans[k].span.endTime > latest
             THEN spans[k].span.endTime ELSE latest)

getDuration(ti) ==
    IF Len(ti.spans) = 0 THEN 0
    ELSE durationLoop(ti.spans, 1, ti.spans[1].span.startTime,
                      ti.spans[1].span.endTime)

\* The status column of a trace: error or not.
statusOf(ti) == IF hasError(ti) THEN "ERROR" ELSE "OK"

findTraceIndex(traces, target) ==
    CHOOSE i \in 1..Len(traces) :
        /\ traces[i].traceID = target.traceID
        /\ \A j \in 1..(i - 1) : traces[j].traceID # target.traceID

writeTOCRow(traceNum, ti) ==
    [traceNum |-> traceNum, traceID |-> ti.traceID,
     serviceName |-> getServiceName(ti),
     duration |-> getDuration(ti), spans |-> Len(ti.spans),
     rootSpan |-> getRootSpanName(ti),
     status |-> statusOf(ti)]

\* The two tables of the table of contents, over the sorted traces.
tableOfContents(traces) ==
    LET IsError(ti) == hasError(ti)
        IsSuccess(ti) == ~hasError(ti)
        errorTraces == SelectSeq(traces, IsError)
        successTraces == SelectSeq(traces, IsSuccess)
    IN  [errorTraces |->
             [k \in 1..Len(errorTraces) |->
                 writeTOCRow(findTraceIndex(traces, errorTraces[k]),
                             errorTraces[k])],
         successTraces |->
             [k \in 1..Len(successTraces) |->
                 writeTOCRow(findTraceIndex(traces, successTraces[k]),
                             successTraces[k])]]

\* What writeTrace shows of one trace: the sorted spans, the duration, the
\* status, the service and the tree.
writeTrace(ti) ==
    LET sorted == [ti EXCEPT !.spans = sortSpans(ti.spans)]
    IN  {[traceID |-> ti.traceID, spans |-> sorted.spans,
          duration |-> getDuration(sorted), status |-> statusOf(sorted),
          service |-> serviceInfo(sorted), tree |-> tree] :
            tree \in buildSpanTree(sorted)}

RECURSIVE writeTraces(_)
writeTraces(traces) ==
    IF traces = <<>> THEN {<<>>}
    ELSE {<<w>> \o rest : w \in writeTrace(traces[1]),
                          rest \in writeTraces(Tail(traces))}

NoTOC == [errorTraces |-> <<>>, successTraces |-> <<>>]

\* The report of an empty store that returns an error instead.
emptyReport_Fails(st) ==
    [err |-> TRUE, totalTraces |-> 0,
     totalDropped |-> st.droppedOldest + st.droppedTraces,
     empty |-> TRUE, traceMap |-> <<>>, toc |-> NoTOC, traces |-> <<>>]

\* "No traces were collected.", return nil
emptyReport(st) ==
    [err |-> FALSE, totalTraces |-> 0,
     totalDropped |-> st.droppedOldest + st.droppedTraces,
     empty |-> TRUE, traceMap |-> <<>>, toc |-> NoTOC, traces |-> <<>>]

\* Every report WriteMarkdown can produce from the store.
Reports(st) ==
    LET entries == st.traces
    IN  IF Len(entries) = 0
        THEN {emptyReport(st)}
        ELSE LET infos == storeSpanInfos(entries, Len(entries))
                 traceMap == groupSpans(infos, Len(infos))
             IN  UNION {LET toc == tableOfContents(traces)
                        IN  {[err |-> FALSE, totalTraces |-> Len(entries),
                              totalDropped |->
                                  st.droppedOldest + st.droppedTraces,
                              empty |-> FALSE, traceMap |-> traceMap,
                              toc |-> toc, traces |-> w] :
                                w \in writeTraces(traces)} :
                        traces \in sortedTraces(traceMap)}

\* The report is built twice from the same store, to compare the two results.
Runs == {"first", "second"}

InitReport ==
    /\ config = [MaxTraces |-> 0, MaxMemoryMB |-> 0, TraceExpiration |-> 0]
    /\ now = 0
    /\ \/ /\ input = OneBatch(<<>>)
          /\ s = NewTraceStorage
       \/ /\ \/ \E q \in SeqsUpTo(FlatSpans, MaxSpans) :
                    \E k \in 0..Len(q) : input = TwoBatches(q, k)
             \/ \E q \in SeqsUpTo(Times, MaxTimedSpans) :
                    input = OneBatch(TimedSpans(q))
             \/ \E q \in SeqsUpTo(StatusSpans, MaxTimedSpans) :
                    input = OneBatch(q)
          /\ s = AddTracesLocked(AddTracesLocked(NewTraceStorage, "r1", 0),
                                 "r2", 0)
    /\ mu = [w |-> None, exclusive |-> FALSE, readers |-> {}]
    /\ pc = [g \in Goroutines |-> "idle"]
    /\ local = [g \in Goroutines |-> NoLocal]
    /\ history = s.traces
    /\ removed = [limit |-> 0, age |-> 0]
    /\ lastCall = NoCall
    /\ acquired = <<>>
    /\ rc = NoReport

\* WriteMarkdown that empties the store once the report is written.
WriteMarkdown_Consumes ==
    /\ Quiet
    /\ Len(rc.reports) < Cardinality(Runs)
    /\ \E r \in Reports(s) :
           rc' = [rc EXCEPT !.reports = Append(@, r)]
    /\ s' = NewTraceStorage
    /\ UNCHANGED <<config, now, mu, pc, local, history, removed, lastCall,
                   acquired, input>>

WriteMarkdown ==
    /\ Quiet
    /\ Len(rc.reports) < Cardinality(Runs)
    /\ \E r \in Reports(s) :
           rc' = [rc EXCEPT !.reports = Append(@, r)]
    /\ UNCHANGED <<s, config, now, mu, pc, local, history, removed, lastCall,
                   acquired, input>>

NextReport == WriteMarkdown

SpecReport == InitReport /\ [][NextReport]_vars

\* The report of one request that holds the spans of one trace.
InitTree ==
    /\ config = [MaxTraces |-> 0, MaxMemoryMB |-> 0, TraceExpiration |-> 0]
    /\ now = 0
    /\ \E q \in SeqsUpTo(TreeSpans, MaxSpans) : input = OneBatch(q)
    /\ s = AddTracesLocked(AddTracesLocked(NewTraceStorage, "r1", 0), "r2", 0)
    /\ mu = [w |-> None, exclusive |-> FALSE, readers |-> {}]
    /\ pc = [g \in Goroutines |-> "idle"]
    /\ local = [g \in Goroutines |-> NoLocal]
    /\ history = s.traces
    /\ removed = [limit |-> 0, age |-> 0]
    /\ lastCall = NoCall
    /\ acquired = <<>>
    /\ rc = NoReport

SpecTree == InitTree /\ [][NextReport]_vars


-----------------------------------------------------------------------------
\* The program from start to exit: two servers hand requests to the store
\* until the signal, then main stops them and writes the report.

GrpcHandler == "g1"
HttpHandler == "g2"

\* The requests of this run: one span of trace T1, one span of trace T2.
ShutdownInput ==
    [r1 |-> <<[traceId |-> "T1", spanId |-> 1, parentSpanId |-> 0,
               startTime |-> 1, endTime |-> 2, status |-> "Unset"]>>,
     r2 |-> <<[traceId |-> "T2", spanId |-> 1, parentSpanId |-> 0,
               startTime |-> 1, endTime |-> 2, status |-> "Unset"]>>]

InitShutdown ==
    /\ config \in {c \in Configs : c.MaxTraces = 0 /\ c.MaxMemoryMB = 0}
    /\ input = ShutdownInput
    /\ s = NewTraceStorage
    /\ now = 0
    /\ mu = [w |-> None, exclusive |-> FALSE, readers |-> {}]
    /\ pc = [g \in Goroutines |-> "idle"]
    /\ local = [g \in Goroutines |-> NoLocal]
    /\ history = <<>>
    /\ removed = [limit |-> 0, age |-> 0]
    /\ lastCall = NoCall
    /\ acquired = <<>>
    /\ rc = [NoReport EXCEPT !.main = "serving"]

\* The listener of a handler's server is open: grpcServer until GracefulStop
\* is called, httpServer until Shutdown is called.
Accepting(g) ==
    IF g = GrpcHandler
    THEN rc.main \in {"serving", "stats", "GracefulStop"}
    ELSE rc.main \in {"serving", "stats", "GracefulStop", "grpc_wait",
                      "Shutdown"}

\* A request arrives and its handler starts: the HTTP handler reads and parses
\* the body, the gRPC handler has the request decoded.
Receive(g, b) ==
    /\ Accepting(g)
    /\ pc[g] = "idle"
    /\ Len(history) + Cardinality({h \in Goroutines : pc[h] = "handling"})
           < MaxConcAdmits
    /\ pc' = [pc EXCEPT ![g] = "handling"]
    /\ local' = [local EXCEPT ![g] = [op |-> "Export", batch |-> b]]
    /\ UNCHANGED <<s, config, now, mu, history, removed, lastCall, acquired,
                   input, rc>>

\* Export: AddTraces, then the response.  The process is still alive.
Export(g) ==
    /\ pc[g] = "handling"
    /\ rc.main # "exited"
    /\ s' = AddTracesLocked(s, local[g].batch, now)
    /\ history' = Append(history,
           [traces |-> local[g].batch, timestamp |-> now,
            sizeBytes |-> estimateSize(local[g].batch,
                                       countSpans(local[g].batch))])
    /\ removed' = [removed EXCEPT
                      !.limit = @ + (Len(s.traces) + 1 - Len(s'.traces))]
    /\ lastCall' = [op |-> "AddTraces", batch |-> local[g].batch, at |-> now,
                    before |-> s]
    /\ pc' = [pc EXCEPT ![g] = "idle"]
    /\ local' = [local EXCEPT ![g] = NoLocal]
    /\ UNCHANGED <<config, now, mu, acquired, input, rc>>

TickServing ==
    /\ rc.main # "exited"
    /\ now < MaxTime
    /\ now' = now + 1
    /\ UNCHANGED <<s, config, mu, pc, local, history, removed, lastCall,
                   acquired, input, rc>>

\* <-sigChan
Signal ==
    /\ rc.main = "serving"
    /\ rc' = [rc EXCEPT !.main = "stats"]
    /\ UNCHANGED <<s, config, now, mu, pc, local, history, removed, lastCall,
                   acquired, input>>

MainGetStats ==
    /\ rc.main = "stats"
    /\ lastCall' = [op |-> "GetStats", at |-> now, before |-> s,
                    result |-> statsOf(s)]
    /\ rc' = [rc EXCEPT !.main = "GracefulStop"]
    /\ UNCHANGED <<s, config, now, mu, pc, local, history, removed, acquired,
                   input>>

\* grpcServer.GracefulStop(): closes the listener ...
GracefulStopBegin ==
    /\ rc.main = "GracefulStop"
    /\ rc' = [rc EXCEPT !.main = "grpc_wait"]
    /\ UNCHANGED <<s, config, now, mu, pc, local, history, removed, lastCall,
                   acquired, input>>

\* ... and returns once no RPC is being handled.
GracefulStopReturn ==
    /\ rc.main = "grpc_wait"
    /\ pc[GrpcHandler] = "idle"
    /\ rc' = [rc EXCEPT !.main = "Shutdown"]
    /\ UNCHANGED <<s, config, now, mu, pc, local, history, removed, lastCall,
                   acquired, input>>

\* httpServer.Shutdown(ctx): closes the listener ...
ShutdownBegin ==
    /\ rc.main = "Shutdown"
    /\ rc' = [rc EXCEPT !.main = "http_wait"]
    /\ UNCHANGED <<s, config, now, mu, pc, local, history, removed, lastCall,
                   acquired, input>>

\* ... and returns nil once no request is being handled ...
ShutdownReturn ==
    /\ rc.main = "http_wait"
    /\ pc[HttpHandler] = "idle"
    /\ rc' = [rc EXCEPT !.main = "WriteMarkdown"]
    /\ UNCHANGED <<s, config, now, mu, pc, local, history, removed, lastCall,
                   acquired, input>>

\* ... or the error of ctx when its five seconds are over, which main logs.
ShutdownTimeout ==
    /\ rc.main = "http_wait"
    /\ rc' = [rc EXCEPT !.main = "WriteMarkdown"]
    /\ UNCHANGED <<s, config, now, mu, pc, local, history, removed, lastCall,
                   acquired, input>>

\* storage.WriteMarkdown(config), under the read lock.
MainWriteMarkdown ==
    /\ rc.main = "WriteMarkdown"
    /\ \E r \in Reports(s) :
           rc' = [rc EXCEPT !.reports = Append(@, r), !.at = now,
                            !.main = "written"]
    /\ UNCHANGED <<s, config, now, mu, pc, local, history, removed, lastCall,
                   acquired, input>>

\* main returns and the process ends, with the goroutines still running.
Exit ==
    /\ rc.main = "written"
    /\ rc' = [rc EXCEPT !.main = "exited"]
    /\ UNCHANGED <<s, config, now, mu, pc, local, history, removed, lastCall,
                   acquired, input>>

NextShutdown ==
    \/ \E g \in Goroutines : \E b \in ReportBatchIds : Receive(g, b)
    \/ \E g \in Goroutines : Export(g)
    \/ TickServing
    \/ Signal
    \/ MainGetStats
    \/ GracefulStopBegin
    \/ GracefulStopReturn
    \/ ShutdownBegin
    \/ ShutdownReturn
    \/ ShutdownTimeout
    \/ MainWriteMarkdown
    \/ Exit

SpecShutdown == InitShutdown /\ [][NextShutdown]_vars

-----------------------------------------------------------------------------
\* The OTLP/HTTP endpoint /v1/traces in front of the store

Methods == {"POST", "GET"}

\* A request body: whether reading it succeeds, and the bytes read, which are
\* the encoding of a batch or no protobuf message at all.
Requests ==
    [method : Methods, readable : BOOLEAN, bytes : BatchIds \cup {"garbage"}]

\* req.UnmarshalProto(body): the export request the bytes encode, or an error.
UnmarshalProto(bytes) ==
    IF bytes \in BatchIds THEN [err |-> FALSE, traces |-> bytes]
    ELSE [err |-> TRUE]

\* The handler without the method check.
ServeHTTP_NoMethodCheck(req) ==
    LET parsed == UnmarshalProto(req.bytes)
        status == IF ~req.readable THEN 400
                  ELSE IF parsed.err THEN 400
                  ELSE 200
    IN  /\ Quiet
        /\ status = 200 => Len(history) < MaxAdmits
        /\ IF status = 200
           THEN /\ s' = AddTracesLocked(s, parsed.traces, now)
                /\ history' = Append(history,
                       [traces |-> parsed.traces, timestamp |-> now,
                        sizeBytes |-> estimateSize(parsed.traces,
                                          countSpans(parsed.traces))])
                /\ removed' = [removed EXCEPT
                       !.limit = @ + (Len(s.traces) + 1 - Len(s'.traces))]
           ELSE UNCHANGED <<s, history, removed>>
        /\ lastCall' = [op |-> "ServeHTTP", request |-> req,
                        status |-> status, at |-> now, before |-> s,
                        admitted |-> Len(history)]
        /\ UNCHANGED <<config, now, mu, pc, local, acquired, input, rc>>

\* The handler of /v1/traces, from the method check to the response.
ServeHTTP(req) ==
    LET parsed == UnmarshalProto(req.bytes)
        status == IF req.method # "POST" THEN 405
                  ELSE IF ~req.readable THEN 400
                  ELSE IF parsed.err THEN 400
                  ELSE 200
    IN  /\ Quiet
        /\ status = 200 => Len(history) < MaxAdmits
        /\ IF status = 200
           THEN /\ s' = AddTracesLocked(s, parsed.traces, now)
                /\ history' = Append(history,
                       [traces |-> parsed.traces, timestamp |-> now,
                        sizeBytes |-> estimateSize(parsed.traces,
                                          countSpans(parsed.traces))])
                /\ removed' = [removed EXCEPT
                       !.limit = @ + (Len(s.traces) + 1 - Len(s'.traces))]
           ELSE UNCHANGED <<s, history, removed>>
        /\ lastCall' = [op |-> "ServeHTTP", request |-> req,
                        status |-> status, at |-> now, before |-> s,
                        admitted |-> Len(history)]
        /\ UNCHANGED <<config, now, mu, pc, local, acquired, input, rc>>

NextHttp == \E req \in Requests : ServeHTTP(req)

SpecHttp == Init /\ [][NextHttp]_vars

-----------------------------------------------------------------------------
\* Properties of the report

\* The spans of the store in grouping order: batch by batch, then by position.
storedSpans == storeSpanInfos(s.traces, Len(s.traces))

spansIn(infos, id) ==
    LET InTrace(si) == si.span.traceId = id
    IN  SelectSeq(infos, InTrace)

spansOfTrace(id) == spansIn(storedSpans, id)

TimesIn(seq, x) == Cardinality({k \in DOMAIN seq : seq[k] = x})

SameBag(p, q) ==
    /\ Len(p) = Len(q)
    /\ \A k \in DOMAIN p : TimesIn(p, p[k]) = TimesIn(q, p[k])

RECURSIVE NodesOf(_)
NodesOf(node) ==
    {node} \cup UNION {NodesOf(node.children[k]) : k \in DOMAIN node.children}

RootSpans(spans) ==
    {k \in DOMAIN spans : IsEmpty(spans[k].span.parentSpanId)}

\* The spans have distinct ids and their parent links form no cycle.
WellFormed(spans) ==
    LET ids == {spans[k].span.spanId : k \in DOMAIN spans}
    IN  /\ \A a, b \in DOMAIN spans :
               spans[a].span.spanId = spans[b].span.spanId => a = b
        /\ \E rank \in [ids -> 1..Len(spans)] :
               \A k \in DOMAIN spans :
                   spans[k].span.parentSpanId \in ids =>
                       rank[spans[k].span.parentSpanId]
                           < rank[spans[k].span.spanId]

AllWellFormed ==
    \A id \in {storedSpans[k].span.traceId : k \in DOMAIN storedSpans} :
        WellFormed(spansOfTrace(id))

\* (startTime, spanId) of a before that of b.
EarlierSpan(a, b) ==
    \/ a.startTime < b.startTime
    \/ a.startTime = b.startTime /\ a.spanId < b.spanId

\* C14: building the span tree ends for every trace: no span id is descended
\* into a second time on the way down from the root, so the depth of a node
\* stays below the number of spans of its trace.
C14_CycleSafety ==
    \A i \in DOMAIN rc.reports : \A k \in DOMAIN rc.reports[i].traces :
        LET w == rc.reports[i].traces[k]
        IN  \A n \in NodesOf(w.tree) : ~n.cut /\ n.depth < Len(w.spans)

\* C15: the report has exactly one trace per trace id found in the store, and
\* that trace holds every stored span with that trace id, from all batches.
C15_Grouping ==
    LET all == storedSpans
        ids == {all[k].span.traceId : k \in DOMAIN all}
    IN  \A i \in DOMAIN rc.reports :
            LET r == rc.reports[i]
            IN  /\ DOMAIN r.traceMap = ids
                /\ Len(r.traces) = Cardinality(ids)
                /\ \A id \in ids :
                       LET want == spansIn(all, id)
                       IN  /\ r.traceMap[id].spans = want
                           /\ \E k \in DOMAIN r.traces :
                                  /\ r.traces[k].traceID = id
                                  /\ SameBag(r.traces[k].spans, want)

\* A report of two traces, one of them with spans of both batches.
C15_Witness ==
    \E i \in DOMAIN rc.reports :
        /\ Len(rc.reports[i].traces) = 2
        /\ \E k \in DOMAIN rc.reports[i].traces :
               LET sp == rc.reports[i].traces[k].spans
               IN  /\ \E a \in DOMAIN sp : sp[a].resource[1] = "r1"
                   /\ \E b \in DOMAIN sp : sp[b].resource[1] = "r2"

\* C16: a trace of the report holds one span per distinct span id: a span id
\* that occurs twice among the stored spans of the trace occurs once in the
\* trace's spans, as the record met last.
C16_LastWriteWins ==
    \A i \in DOMAIN rc.reports : \A k \in DOMAIN rc.reports[i].traces :
        LET sp == rc.reports[i].traces[k].spans
            all == spansOfTrace(rc.reports[i].traces[k].traceID)
        IN  /\ \A a, b \in DOMAIN sp :
                   sp[a].span.spanId = sp[b].span.spanId => a = b
            /\ \A a \in DOMAIN sp : \E l \in DOMAIN all :
                   /\ all[l] = sp[a]
                   /\ \A m \in DOMAIN all :
                          all[m].span.spanId = sp[a].span.spanId => m <= l

\* C17: two reports built from the same store, one of whose spans has an empty
\* parent id, are identical: same trace order, same roots, same trees.
C17_Determinism ==
    RootSpans(storedSpans) # {} /\ AllWellFormed =>
        \A i, j \in DOMAIN rc.reports : rc.reports[i] = rc.reports[j]

\* C18: when a span of the trace has an empty parent id, the root of the tree
\* is the first such span in grouping order.
C18_RootSelection ==
    \A i \in DOMAIN rc.reports : \A k \in DOMAIN rc.reports[i].traces :
        LET w == rc.reports[i].traces[k]
            all == spansOfTrace(w.traceID)
            roots == RootSpans(all)
        IN  roots # {} /\ WellFormed(all) =>
                w.tree.spanInfo = all[CHOOSE a \in roots : \A b \in roots : a <= b]

\* C19: when no span of the trace has an empty parent id, the root of the tree
\* is the span with the earliest start time, the smallest span id among equals.
C19_RootFallback ==
    \A i \in DOMAIN rc.reports : \A k \in DOMAIN rc.reports[i].traces :
        LET w == rc.reports[i].traces[k]
            all == spansOfTrace(w.traceID)
        IN  RootSpans(all) = {} /\ WellFormed(all) =>
                \A a \in DOMAIN all :
                    \/ EarlierSpan(w.tree.spanInfo.span, all[a].span)
                    \/ /\ w.tree.spanInfo.span.startTime = all[a].span.startTime
                       /\ w.tree.spanInfo.span.spanId = all[a].span.spanId

\* C20: the children of a node are the spans whose parent id is the node's
\* span id, by start time ascending and by span id among equal start times.
C20_ChildOrder ==
    \A i \in DOMAIN rc.reports : \A k \in DOMAIN rc.reports[i].traces :
        LET w == rc.reports[i].traces[k]
            spanMap == buildSpanMap(w.spans, Len(w.spans))
        IN  \A n \in NodesOf(w.tree) :
                WellFormed(spansOfTrace(w.traceID)) =>
                    /\ {n.children[c].spanInfo.span.spanId :
                            c \in DOMAIN n.children}
                           = {id \in DOMAIN spanMap :
                                 spanMap[id].span.parentSpanId
                                     = n.spanInfo.span.spanId}
                    /\ \A c, d \in DOMAIN n.children :
                           c < d => EarlierSpan(n.children[c].spanInfo.span,
                                                n.children[d].spanInfo.span)

\* Trace ids in string order.
TraceIdBefore(a, b) == a = "T1" /\ b = "T2"

\* C21: the traces of a report are listed by their earliest span start time,
\* and traces with the same earliest start time by trace id.
C21_TraceOrdering ==
    AllWellFormed =>
        \A i \in DOMAIN rc.reports :
            LET r == rc.reports[i]
            IN  \A a, b \in DOMAIN r.traces :
                    a < b =>
                        LET ta == getEarliestTime(r.traces[a])
                            tb == getEarliestTime(r.traces[b])
                        IN  \/ ta < tb
                            \/ /\ ta = tb
                               /\ TraceIdBefore(r.traces[a].traceID,
                                                r.traces[b].traceID)

MinStart(spans) ==
    CHOOSE m \in {spans[k].span.startTime : k \in DOMAIN spans} :
        \A k \in DOMAIN spans : m <= spans[k].span.startTime

MaxEnd(spans) ==
    CHOOSE m \in {spans[k].span.endTime : k \in DOMAIN spans} :
        \A k \in DOMAIN spans : m >= spans[k].span.endTime

\* The rows of both tables of the table of contents.
tocRows(r) == r.toc.errorTraces \o r.toc.successTraces

\* C22: the duration shown for a trace, in its section and in its row of the
\* table of contents, is the latest end time of its spans minus the earliest
\* start time, as an unsigned difference read as a signed duration.
C22_Duration ==
    LET stored == storedSpans
    IN  \A i \in DOMAIN rc.reports :
            LET r == rc.reports[i]
                rows == tocRows(r)
            IN  /\ \A k \in DOMAIN r.traces :
                       LET all == spansIn(stored, r.traces[k].traceID)
                       IN  r.traces[k].duration
                               = toDuration(MaxEnd(all), MinStart(all))
                /\ \A k \in DOMAIN rows :
                       LET all == spansIn(stored, rows[k].traceID)
                       IN  rows[k].duration
                               = toDuration(MaxEnd(all), MinStart(all))

\* A trace of two spans whose latest end is not the end of its first span and
\* whose earliest start is not the start of its first span.
C22_Witness ==
    \E i \in DOMAIN rc.reports : \E k \in DOMAIN rc.reports[i].traces :
        LET all == spansOfTrace(rc.reports[i].traces[k].traceID)
        IN  /\ Len(all) = 2
            /\ all[1].span.spanId # all[2].span.spanId
            /\ all[2].span.endTime > all[1].span.endTime
            /\ all[2].span.startTime < all[1].span.startTime
            /\ rc.reports[i].traces[k].duration > 0

\* C23: a trace is shown with an error exactly when one of its spans has the
\* status Error, and it has exactly one row in the table of contents: among
\* the traces with errors if it has one, among the successful traces if not.
C23_ErrorFlag ==
    \A i \in DOMAIN rc.reports :
        LET r == rc.reports[i]
            all == storedSpans
            Failed(id) == \E k \in DOMAIN all :
                              /\ all[k].span.traceId = id
                              /\ all[k].span.status = "Error"
            RowsOf(rows, id) == {k \in DOMAIN rows : rows[k].traceID = id}
        IN  \A k \in DOMAIN r.traces :
                LET id == r.traces[k].traceID
                IN  /\ r.traces[k].status = "ERROR" <=> Failed(id)
                    /\ Cardinality(RowsOf(r.toc.errorTraces, id))
                           = IF Failed(id) THEN 1 ELSE 0
                    /\ Cardinality(RowsOf(r.toc.successTraces, id))
                           = IF Failed(id) THEN 0 ELSE 1
                    /\ \A m \in RowsOf(tocRows(r), id) :
                           /\ tocRows(r)[m].traceNum = k
                           /\ tocRows(r)[m].status = r.traces[k].status

\* A report with one trace in each table.
C23_Witness ==
    \E i \in DOMAIN rc.reports :
        /\ Len(rc.reports[i].toc.errorTraces) = 1
        /\ Len(rc.reports[i].toc.successTraces) = 1

C25_ReadOnly == [][rc'.reports # rc.reports => s' = s]_vars

\* A report was built, and writeTrace reordered the spans of a trace.
C25_Witness ==
    /\ Len(s.traces) = 2
    /\ s.totalSpanCount = 2
    /\ \E i \in DOMAIN rc.reports : \E k \in DOMAIN rc.reports[i].traces :
           rc.reports[i].traces[k].spans
               # spansOfTrace(rc.reports[i].traces[k].traceID)

-----------------------------------------------------------------------------
\* Limits set to zero

\* The entries the last AddTraces call removed.
evictedByLastCall == Len(lastCall.before.traces) + 1 - Len(s.traces)

\* C26: a limit of zero is no limit.  Without a count limit an admission only
\* removes entries that had to go for the byte limit; without a byte limit it
\* removes at most the one entry the count limit asks for; without an
\* expiration no entry is removed for its age; without any limit every batch
\* admitted is retained and both drop counters stay 0.
C26_ZeroMeansUnlimited ==
    /\ config.MaxTraces = 0 /\ lastCall.op = "AddTraces" =>
           \A k \in 1..evictedByLastCall :
               /\ config.MaxMemoryMB > 0
               /\ sumSizeBytes(SubSeq(lastCall.before.traces, k,
                                      Len(lastCall.before.traces)))
                      + Last(s.traces).sizeBytes > maxBytes
    /\ config.MaxMemoryMB = 0 /\ lastCall.op = "AddTraces" =>
           /\ evictedByLastCall <= 1
           /\ evictedByLastCall = 1 =>
                  /\ config.MaxTraces > 0
                  /\ Len(lastCall.before.traces) >= config.MaxTraces
    /\ config.TraceExpiration = 0 => removed.age = 0
    /\ AllZero =>
           /\ s.traces = history
           /\ removed.limit = 0
           /\ s.droppedTraces = 0
           /\ s.droppedOldest = 0

\* Without any limit: all admissions made, the clock at its end, and a
\* GetTraces call that had entries of every age to look at.
C26_Witness ==
    /\ AllZero
    /\ Len(s.traces) = MaxAdmits
    /\ now = MaxTime
    /\ lastCall.op = "GetTraces"
    /\ s.traces[1].timestamp = 0

-----------------------------------------------------------------------------
\* Properties of admission and expiry, call by call

\* The entry the last AddTraces call built.
admittedByLastCall == Last(s.traces)

\* The last AddTraces call found the store within both limits.
lastCallHadRoom ==
    LET before == lastCall.before
    IN  /\ ~(config.MaxMemoryMB > 0
             /\ before.totalSizeBytes + admittedByLastCall.sizeBytes > maxBytes)
        /\ ~(config.MaxTraces > 0 /\ Len(before.traces) >= config.MaxTraces)

\* An entry older than the expiration at time t.
IsStale(e, t) ==
    config.TraceExpiration > 0 /\ e.timestamp < t - config.TraceExpiration

\* C31: expiry is lazy.  GetStats leaves the store as it is; an AddTraces call
\* that needs no room keeps every entry, however old, and leaves the count of
\* entries dropped for their age unchanged.
C31_LazyExpiry ==
    /\ lastCall.op = "GetStats" => s = lastCall.before
    /\ (lastCall.op = "AddTraces" /\ lastCallHadRoom) =>
           /\ SubSeq(s.traces, 1, Len(s.traces) - 1) = lastCall.before.traces
           /\ statsOf(s).droppedOldest = statsOf(lastCall.before).droppedOldest

\* An AddTraces call and a GetStats call that each found an entry older than
\* the expiration and left it in the store.
C31_Witness ==
    /\ lastCall.op = "GetStats"
    /\ Len(s.traces) = 2
    /\ IsStale(s.traces[1], lastCall.at)
    /\ s.traces[2].timestamp > s.traces[1].timestamp + config.TraceExpiration
    /\ s.droppedOldest = 0

\* C32: the two drop counters are independent.  An AddTraces call raises
\* droppedTraces by the number of entries it evicted and leaves droppedOldest
\* unchanged; a GetTraces call raises droppedOldest by the number of entries it
\* expired and leaves droppedTraces unchanged.
C32_IndependentCounters ==
    /\ lastCall.op = "AddTraces" =>
           /\ s.droppedOldest = lastCall.before.droppedOldest
           /\ s.droppedTraces = lastCall.before.droppedTraces + evictedByLastCall
    /\ lastCall.op = "GetTraces" =>
           /\ s.droppedTraces = lastCall.before.droppedTraces
           /\ s.droppedOldest = lastCall.before.droppedOldest
                  + (Len(lastCall.before.traces) - Len(s.traces))

\* The batch of size newSize fits once the k oldest entries of st are gone.
FitsWithout(st, k, newSize) ==
    \/ k = Len(st.traces)
    \/ st.totalSizeBytes - sumSizeBytes(SubSeq(st.traces, 1, k)) + newSize
           <= maxBytes

\* The shortest prefix of st whose removal makes room for newSize bytes.
smallestPrefix(st, newSize) ==
    IF config.MaxMemoryMB = 0 THEN 0
    ELSE CHOOSE k \in 0..Len(st.traces) :
             /\ FitsWithout(st, k, newSize)
             /\ \A j \in 0..(k - 1) : ~FitsWithout(st, j, newSize)

\* C33: an AddTraces call evicts for the byte limit the shortest prefix of the
\* store that makes room for the batch (the whole store if none does), then
\* one more entry if the count limit is still reached, and nothing else.
C33_MinimalEviction ==
    lastCall.op = "AddTraces" =>
        LET before == lastCall.before
            k == smallestPrefix(before, admittedByLastCall.sizeBytes)
            c == IF config.MaxTraces > 0
                    /\ Len(before.traces) - k >= config.MaxTraces
                 THEN 1 ELSE 0
        IN  /\ evictedByLastCall = k + c
            /\ SubSeq(s.traces, 1, Len(s.traces) - 1)
                   = SubSeq(before.traces, k + c + 1, Len(before.traces))

\* The byte limit made the call evict some of the entries and keep the rest.
C33_Witness ==
    /\ lastCall.op = "AddTraces"
    /\ config.MaxMemoryMB > 0
    /\ Len(lastCall.before.traces) = 2
    /\ evictedByLastCall = 1
    /\ Len(s.traces) = 2

\* The entries the last call removed from the store.
removedByLastCall ==
    IF lastCall.op = "AddTraces"
    THEN SubSeq(lastCall.before.traces, 1, evictedByLastCall)
    ELSE SelectSeq(lastCall.before.traces,
                   LAMBDA e : \A k \in DOMAIN s.traces : s.traces[k] # e)

\* C35: the size of every entry is 100 bytes, plus 500 per resource group of
\* its batch, plus 1024 per span of its batch; it is the size the call added to
\* the byte total, and the size a later eviction or expiry subtracts.
C35_SizeEstimate ==
    /\ \A k \in DOMAIN history :
           history[k].sizeBytes
               = 100 + 500 * Len(ResourceSpans(history[k].traces))
                     + 1024 * countSpans(history[k].traces)
    /\ \A k \in DOMAIN s.traces :
           \E j \in DOMAIN history : s.traces[k] = history[j]
    /\ lastCall.op = "AddTraces" =>
           s.totalSizeBytes
               = lastCall.before.totalSizeBytes
                     - sumSizeBytes(removedByLastCall)
                     + Last(history).sizeBytes
    /\ lastCall.op = "GetTraces" =>
           s.totalSizeBytes
               = lastCall.before.totalSizeBytes
                     - sumSizeBytes(removedByLastCall)

\* A batch of two resource groups and one of two scope groups in one resource
\* group were admitted, and one entry has since been evicted.
C35_Witness ==
    /\ lastCall.op = "AddTraces"
    /\ evictedByLastCall = 1
    /\ \E k \in DOMAIN history : Len(ResourceSpans(history[k].traces)) = 2
    /\ \E k \in DOMAIN history :
           /\ Len(ResourceSpans(history[k].traces)) = 1
           /\ Len(ResourceSpans(history[k].traces)[1]) = 2

-----------------------------------------------------------------------------
\* Progress of the calls

\* C29: every call that has started returns, and when no call is under way
\* the lock is free.
C29_NoBlocking ==
    /\ \A g \in Goroutines : (pc[g] # "idle") ~> (pc[g] = "idle")
    /\ [](Quiet => mu = [w |-> None, exclusive |-> FALSE, readers |-> {}])

\* An AddTraces call waits for a reader to leave while the other goroutine
\* is inside GetTraces.
C29_Witness ==
    \E g, h \in Goroutines :
        /\ pc[g] = "add_LockWait"
        /\ h \in mu.readers
        /\ local[h].op = "GetTraces"

-----------------------------------------------------------------------------
\* Properties of the shutdown

\* The spans a report shows, over all its traces.
spansShown(r) ==
    LET ids == DOMAIN r.traceMap
        RECURSIVE Sum(_)
        Sum(S) == IF S = {} THEN 0
                  ELSE LET id == CHOOSE x \in S : TRUE
                       IN  Len(r.traceMap[id].spans) + Sum(S \ {id})
    IN  Sum(ids)

\* The batches received that are not older than the expiration at time t.
notExpiredAt(t) ==
    LET Young(e) == ~(e.timestamp < t - config.TraceExpiration)
    IN  SelectSeq(history, Young)

\* C27: with an expiration set, the report shows and counts only batches that
\* are not older than the expiration at the time the report is written.
C27_ReportAfterExpiry ==
    config.TraceExpiration > 0 =>
        \A i \in DOMAIN rc.reports :
            /\ rc.reports[i].totalTraces <= Len(notExpiredAt(rc.at))
            /\ spansShown(rc.reports[i])
                   <= sumSpanCount(notExpiredAt(rc.at))

\* C30: when the report is written no request is being handled, none is
\* handled afterwards, and the report holds every batch that was admitted.
C30_GracefulShutdown ==
    rc.reports # <<>> =>
        /\ \A g \in Goroutines : pc[g] = "idle"
        /\ \A i \in DOMAIN rc.reports :
               /\ rc.reports[i].totalTraces = Len(history)
               /\ spansShown(rc.reports[i]) = sumSpanCount(history)

-----------------------------------------------------------------------------
\* Properties of the HTTP endpoint

\* C38: a request that is not a POST is answered 405, a POST whose body cannot
\* be read or parsed is answered 400, and both leave the store as it was; any
\* other POST is answered 200 and admits its batch, once.
C38_RejectedRequests ==
    lastCall.op = "ServeHTTP" =>
        LET req == lastCall.request
            bad == ~req.readable \/ req.bytes \notin BatchIds
        IN  /\ req.method # "POST" => lastCall.status = 405
            /\ (req.method = "POST" /\ bad) => lastCall.status = 400
            /\ (req.method = "POST" /\ ~bad) => lastCall.status = 200
            /\ lastCall.status # 200 =>
                   /\ s = lastCall.before
                   /\ Len(history) = lastCall.admitted
            /\ lastCall.status = 200 =>
                   /\ Len(history) = lastCall.admitted + 1
                   /\ Last(history).traces = req.bytes
                   /\ Last(s.traces) = Last(history)

\* A GET that carries a well-formed batch reached a store holding two entries.
C38_Witness ==
    /\ lastCall.op = "ServeHTTP"
    /\ lastCall.request.method = "GET"
    /\ lastCall.request.readable
    /\ lastCall.request.bytes \in BatchIds
    /\ Len(s.traces) = 2
    /\ Len(history) = 2

-----------------------------------------------------------------------------
\* Properties of the service and root columns and of the tree

\* The row of the table of contents for the trace id.
tocRowOf(r, id) ==
    tocRows(r)[CHOOSE k \in DOMAIN tocRows(r) : tocRows(r)[k].traceID = id]

\* The service.name of the resource of the first span met for the trace id
\* when the store is walked in order, "unknown" without the attribute.
firstMetService(id) ==
    LET a == serviceNameAttribute(spansOfTrace(id)[1].resource)
    IN  IF a.ok THEN a.value ELSE "unknown"

\* C34: the service shown for a trace is the service.name of the resource of
\* the first span met for the trace in grouping order, in its row of the table
\* of contents and in its service info table alike.
C34_ServiceName ==
    AllWellFormed =>
        \A i \in DOMAIN rc.reports : \A k \in DOMAIN rc.reports[i].traces :
            LET w == rc.reports[i].traces[k]
                shown == IF w.service.ok THEN w.service.value ELSE "unknown"
            IN  /\ tocRowOf(rc.reports[i], w.traceID).serviceName
                       = firstMetService(w.traceID)
                /\ shown = firstMetService(w.traceID)

\* C36: the root operation in the row of a trace in the table of contents is
\* the name of the span at the root of the tree drawn for that trace.
C36_RootConsistency ==
    AllWellFormed =>
        \A i \in DOMAIN rc.reports : \A k \in DOMAIN rc.reports[i].traces :
            LET w == rc.reports[i].traces[k]
            IN  tocRowOf(rc.reports[i], w.traceID).rootSpan
                    = Name(w.tree.spanInfo.span)

\* The nodes of a tree, parents before children, every occurrence listed.
RECURSIVE nodeList(_)
RECURSIVE nodeLists(_)
nodeList(node) == <<node>> \o nodeLists(node.children)

nodeLists(nodes) ==
    IF nodes = <<>> THEN <<>>
    ELSE nodeList(Head(nodes)) \o nodeLists(Tail(nodes))

\* The span ids reached from the span ids S by one to n parent links.
RECURSIVE ancestors(_, _, _)
ancestors(spans, S, n) ==
    IF n = 0 \/ S = {} THEN {}
    ELSE LET up == {spans[k].span.parentSpanId :
                       k \in {l \in DOMAIN spans : spans[l].span.spanId \in S}}
         IN  up \cup ancestors(spans, up, n - 1)

\* The parent links of the spans form no cycle.
Acyclic(spans) ==
    \A k \in DOMAIN spans :
        spans[k].span.spanId
            \notin ancestors(spans, {spans[k].span.spanId}, Len(spans))

\* C37: the tree of a trace whose parent links form no cycle holds every span
\* id at most once, every child below the node whose span id is the child's
\* parent id, the root at depth 0 and every child one deeper than its parent.
C37_TreeWellFormed ==
    \A i \in DOMAIN rc.reports : \A k \in DOMAIN rc.reports[i].traces :
        LET w == rc.reports[i].traces[k]
            nodes == nodeList(w.tree)
        IN  Acyclic(rc.reports[i].traceMap[w.traceID].spans) =>
                /\ w.tree.depth = 0
                /\ \A a, b \in DOMAIN nodes :
                       nodes[a].spanInfo.span.spanId
                           = nodes[b].spanInfo.span.spanId => a = b
                /\ \A a \in DOMAIN nodes :
                       /\ ~nodes[a].cut
                       /\ \A c \in DOMAIN nodes[a].children :
                              LET child == nodes[a].children[c]
                              IN  /\ child.spanInfo.span.parentSpanId
                                         = nodes[a].spanInfo.span.spanId
                                  /\ child.depth = nodes[a].depth + 1

\* A chain of three spans: a root, its child and its grandchild.
C37_Witness ==
    \E i \in DOMAIN rc.reports : \E k \in DOMAIN rc.reports[i].traces :
        LET w == rc.reports[i].traces[k]
            nodes == nodeList(w.tree)
        IN  /\ Acyclic(rc.reports[i].traceMap[w.traceID].spans)
            /\ Len(nodes) = 3
            /\ \E a \in DOMAIN nodes : nodes[a].depth = 2
====
